---- MODULE Spec2Model ----
(***************************************************************************)
(* A model of proxy-optional-webdav (src/src/main.rs): a single-upstream   *)
(* HTTP reverse proxy that forwards every request to one upstream and      *)
(* answers with a synthetic WebDAV 207 document when the upstream call     *)
(* fails or does not yield response headers within five seconds.           *)
(*                                                                         *)
(* Strings that the program takes apart or builds (path-and-query, the     *)
(* failure reason, the href) are sequences of one-character strings.       *)
(* Time is counted in whole seconds since the dispatch of each request.    *)
(***************************************************************************)
EXTENDS Naturals, Sequences, FiniteSets

VARIABLES
    upstream_uri,  \* main: the base Uri parsed from "http://REMOTE" (line 126)
    listening,     \* main: the server future is being awaited (lines 143-148)
    pc,            \* per request: position of its proxy_request call
    req,           \* per request: the inbound Request (method, uri, headers)
    out,           \* per request: new_req as handed to client.request
    call,          \* per request: state of the client.request future
    upresp,        \* per request: the Response the upstream call resolved to
    late,          \* per request: the upstream answered a dropped call
    elapsed,       \* per request: seconds since dispatch (line 30)
    readyAt,       \* per request: value of elapsed when the future resolved
    result,        \* per request: what proxy_request returned
    resp,          \* per request: the Response written to the client
    nresp,         \* per request: number of responses produced
    attempts,      \* per request: number of client.request calls made
    body           \* per request: state of the streamed upstream body

vars == <<upstream_uri, listening, pc, req, out, call, upresp, late, elapsed,
          readyAt, result, resp, nresp, attempts, body>>

(***************************************************************************)
(* Bounds and program constants                                            *)
(***************************************************************************)
\* Number of inbound requests a behaviour handles (each on its own connection).
NumRequests == 2

\* Longest path-and-query string of an inbound request.
MaxLen == 3

\* Seconds after dispatch up to which the clock of a request is followed.
MaxElapsed == 6

\* Duration::from_secs(5)
TIMEOUT_SECS == 5

\* Response::builder().status(207)
MULTI_STATUS == 207

Reqs == 1..NumRequests

(***************************************************************************)
(* http::Uri                                                               *)
(***************************************************************************)
Alphabet == {"/", "a", "?"}

Str(n) == UNION {[1..k -> Alphabet] : k \in 0..n}

None == [some |-> FALSE, val |-> <<>>]

Some(v) == [some |-> TRUE, val |-> v]

MkUri(s, a, p) == [scheme |-> s, authority |-> a, pq |-> p]

\* Uri::path_and_query(): absent for an authority-form URI (no scheme, an authority).
path_and_query(u) ==
    IF u.scheme # "" \/ u.authority = "" THEN Some(u.pq) ELSE None

\* Index of the first "?" of a path-and-query string, 0 when it has none.
QueryStart(p) ==
    IF \E i \in 1..Len(p) : p[i] = "?"
    THEN CHOOSE i \in 1..Len(p) : p[i] = "?" /\ \A j \in 1..(i - 1) : p[j] # "?"
    ELSE 0

\* PathAndQuery::path(): the part before the query; an empty path reads "/".
path(p) ==
    LET raw == IF QueryStart(p) = 0 THEN p ELSE SubSeq(p, 1, QueryStart(p) - 1)
    IN  IF raw = <<>> THEN <<"/">> ELSE raw

\* PathAndQuery::query()
query(p) ==
    IF QueryStart(p) = 0 THEN None ELSE Some(SubSeq(p, QueryStart(p) + 1, Len(p)))

\* PathAndQuery::as_str: the string of a path-and-query, "/" when it is empty.
as_str(p) == IF p = <<>> THEN <<"/">> ELSE p

\* Uri::into_parts
into_parts(u) ==
    [scheme |-> u.scheme, authority |-> u.authority, path_and_query |-> Some(u.pq)]

\* Uri::from_parts: a scheme needs an authority and a path-and-query.
from_parts(parts) ==
    IF parts.scheme # "" /\ (parts.authority = "" \/ ~parts.path_and_query.some)
    THEN [ok |-> FALSE, uri |-> MkUri("", "", <<>>)]
    ELSE IF parts.scheme = "" /\ parts.authority # "" /\ parts.path_and_query.some
    THEN [ok |-> FALSE, uri |-> MkUri("", "", <<>>)]
    ELSE [ok |-> TRUE,
          uri |-> MkUri(parts.scheme, parts.authority, parts.path_and_query.val)]

\* The URI as the outbound request carries it: scheme, authority, path, query.
Display(u) ==
    (IF u.scheme # "" THEN <<u.scheme, "://">> ELSE <<>>)
    \o (IF u.authority # "" THEN <<u.authority>> ELSE <<>>)
    \o (IF u.pq # <<>> \/ u.scheme # "" THEN path(u.pq) ELSE <<>>)
    \o (IF query(u.pq).some THEN <<"?">> \o query(u.pq).val ELSE <<>>)

\* Variant: line 16 is left out, the base URI keeps its own path-and-query.
compose_base(base, uri) ==
    IF path_and_query(uri).some THEN from_parts(into_parts(base))
    ELSE from_parts([into_parts(base) EXCEPT !.path_and_query = None])

\* proxy_request, lines 15-17: the base URI with the request's path-and-query.
compose(base, uri) ==
    from_parts([into_parts(base) EXCEPT !.path_and_query = path_and_query(uri)])

(***************************************************************************)
(* Requests and responses                                                  *)
(***************************************************************************)
Header(n, v) == [name |-> n, value |-> v]

MkRequest(m, u, h) == [method |-> m, uri |-> u, headers |-> h]

MkResponse(s, h, b) == [status |-> s, headers |-> h, body |-> b]

NoReq == MkRequest("", MkUri("", "", <<>>), <<>>)

NoResp == MkResponse(0, <<>>, <<>>)

\* The remote arguments main may be started with (REMOTE_HOST:PORT).
Remotes == {"203.0.113.5:8080", "dav.local:80"}

\* main, line 126: format!("http://{}", remote).parse::<Uri>()
ParseRemote(remote) == MkUri("http", remote, <<>>)

Methods == {"PROPFIND", "CONNECT"}

HeaderSets ==
    { <<>>,
      <<Header("host", "in.example"), Header("authorization", "Basic xyz")>> }

\* Request targets: origin-form, absolute-form and authority-form.
OriginForm == {MkUri("", "", p) : p \in {s \in Str(MaxLen) : s # <<>> /\ s[1] = "/"}}

AbsoluteForm ==
    {MkUri("https", "in.example", p) :
        p \in {s \in Str(MaxLen) : s = <<>> \/ s[1] \in {"/", "?"}}}

AuthorityForm == {MkUri("", "in.example:443", <<>>)}

AllUris == OriginForm \cup AbsoluteForm \cup AuthorityForm

AllInbound ==
    {MkRequest(m, u, h) : m \in Methods, u \in AllUris, h \in HeaderSets}

\* The requests of the concurrent specification: one of each outcome of line 17.
Inbound ==
    { MkRequest("PROPFIND", MkUri("", "", <<"/", "a">>),
                 <<Header("host", "in.example"), Header("authorization", "Basic xyz")>>),
      MkRequest("CONNECT", MkUri("", "in.example:443", <<>>), <<>>) }

\* What the upstream may answer.
OneAnswer ==
    MkResponse(207, <<Header("content-type", "application/xml")>>, <<"<listing/>">>)

UpstreamResponses == {OneAnswer, MkResponse(404, <<>>, <<>>)}

\* Variant: the proxy rewrites Host and adds a forwarding header.
new_req_rewrite(r, new_uri) ==
    MkRequest(r.method, new_uri,
              [i \in 1..Len(r.headers) |->
                  IF r.headers[i].name = "host"
                  THEN Header("host", new_uri.authority) ELSE r.headers[i]]
              \o <<Header("x-forwarded-for", "127.0.0.1")>>)

\* proxy_request, lines 20-27: same method, the composed URI, the cloned headers.
new_req(r, new_uri) == MkRequest(r.method, new_uri, r.headers)

\* str::to_uppercase on the letters of the reasons.
UpperChar(c) ==
    CASE c = "c" -> "C" [] c = "l" -> "L" [] c = "o" -> "O" [] c = "s" -> "S"
      [] c = "e" -> "E" [] c = "d" -> "D" [] c = "t" -> "T" [] c = "i" -> "I"
      [] c = "m" -> "M" [] c = "u" -> "U" [] OTHER -> c

to_uppercase(s) == [i \in 1..Len(s) |-> UpperChar(s[i])]

Closed == <<"c", "l", "o", "s", "e", "d">>

Timeout == <<"t", "i", "m", "e", "o", "u", "t">>

\* create_error_response, lines 44-65: the multistatus document with the reason
\* substituted into href and displayname, status 207 and the XML content type.
create_error_response(reason) ==
    [result |-> "Ok",
     resp |-> MkResponse(
        MULTI_STATUS,
        <<Header("Content-Type", "application/xml; charset=utf-8")>>,
        <<"<?xml version=\"1.0\" encoding=\"utf-8\"?>",
          "<d:multistatus xmlns:d=\"DAV:\">",
          "<d:response>",
          "<d:href>", "/">> \o reason \o <<"/", "</d:href>",
          "<d:propstat>",
          "<d:prop>",
          "<d:displayname>">> \o to_uppercase(reason) \o <<"</d:displayname>",
          "<d:resourcetype><d:collection/></d:resourcetype>",
          "</d:prop>",
          "<d:status>HTTP/1.1 200 OK</d:status>",
          "</d:propstat>",
          "</d:response>",
          "</d:multistatus>">>),
     again |-> FALSE]

(***************************************************************************)
(* proxy_request, line 30 onwards                                          *)
(***************************************************************************)
\* The errors client.request may resolve to: the connection is refused, reset or
\* unreachable, or the upstream's answer is not a valid HTTP response.
ConnectErrs == {"refused", "reset", "unreachable"}

ErrKinds == ConnectErrs \cup {"invalid"}

\* The client.request future has produced its output.
Resolved(c) == c = "ok" \/ c \in ErrKinds

\* Variant: the deadline is noticed a second late.
Expired_late(e) == e >= TIMEOUT_SECS + 1

\* The deadline of timeout(Duration::from_secs(5), ..) has passed.
Expired(e) == e >= TIMEOUT_SECS

\* tokio's timeout: the inner future is polled first, the deadline after it.
timeout(c, e) ==
    IF c = "ok" THEN "Ok(Ok)"
    ELSE IF c \in ErrKinds THEN "Ok(Err)"
    ELSE IF Expired(e) THEN "Err(Elapsed)"
    ELSE "Pending"

\* Variant: the two reasons exchanged between the arms.
proxy_match_swapped(t, response) ==
    CASE t = "Ok(Ok)" -> [result |-> "Ok", resp |-> response, again |-> FALSE]
      [] t = "Ok(Err)" -> create_error_response(Timeout)
      [] OTHER -> create_error_response(Closed)

\* Variant: a failed upstream call is issued again.
proxy_match_retry(t, response) ==
    CASE t = "Ok(Ok)" -> [result |-> "Ok", resp |-> response, again |-> FALSE]
      [] t = "Ok(Err)" -> [create_error_response(Closed) EXCEPT !.again = TRUE]
      [] OTHER -> create_error_response(Timeout)

\* Variant: the error of the upstream call is returned to hyper (as with `?`).
proxy_match_propagate(t, response) ==
    CASE t = "Ok(Ok)" -> [result |-> "Ok", resp |-> response, again |-> FALSE]
      [] t = "Ok(Err)" -> [result |-> "Err", resp |-> NoResp, again |-> FALSE]
      [] OTHER -> create_error_response(Timeout)

\* The match of lines 30-40: what proxy_request returns for each arm, and whether
\* it issues the upstream request again (it never does).
proxy_match(t, response) ==
    CASE t = "Ok(Ok)" -> [result |-> "Ok", resp |-> response, again |-> FALSE]
      [] t = "Ok(Err)" -> create_error_response(Closed)
      [] OTHER -> create_error_response(Timeout)

\* The inner future after the match: timeout drops it when the deadline won.
AfterMatch(t, c) == IF t = "Err(Elapsed)" THEN "dropped" ELSE c

\* Variant: the answer of the abandoned call replaces the response.
OnLateReply_replace(written, response) == response

\* A dropped client.request future delivers nothing: the response stays.
OnLateReply(written, response) == written

\* The task of a request is woken when its future resolves or its deadline passes.
Ready(r) == pc[r] = "awaiting" /\ timeout(call[r], elapsed[r]) # "Pending"

\* Variant: handlers run one at a time, in the order of arrival.
Runnable_serial(r) ==
    Ready(r) /\ \A q \in Reqs : q < r => pc[q] # "awaiting"

\* main, lines 130-137: every connection is served by its own task, so a woken
\* handler runs whatever the other requests are doing.
Runnable(r) == Ready(r)

(***************************************************************************)
(* Initial state: main has parsed the remote and the server is listening.  *)
(***************************************************************************)
Init ==
    /\ upstream_uri \in {ParseRemote(remote) : remote \in Remotes}
    /\ listening = TRUE
    /\ pc = [r \in Reqs |-> "idle"]
    /\ req = [r \in Reqs |-> NoReq]
    /\ out = [r \in Reqs |-> NoReq]
    /\ call = [r \in Reqs |-> "none"]
    /\ upresp = [r \in Reqs |-> NoResp]
    /\ late = [r \in Reqs |-> FALSE]
    /\ elapsed = [r \in Reqs |-> 0]
    /\ readyAt = [r \in Reqs |-> 0]
    /\ result = [r \in Reqs |-> "none"]
    /\ resp = [r \in Reqs |-> NoResp]
    /\ nresp = [r \in Reqs |-> 0]
    /\ attempts = [r \in Reqs |-> 0]
    /\ body = [r \in Reqs |-> "none"]

(***************************************************************************)
(* Actions                                                                 *)
(***************************************************************************)
\* service_fn calls proxy_request(req, upstream_uri.clone()); lines 9-30 run up to
\* the await: the URI is composed (a failed from_parts panics in expect), the new
\* request is built and handed to client.request under the timeout.
Accept(r, in) ==
    /\ listening
    /\ pc[r] = "idle"
    /\ \A q \in Reqs : q < r => pc[q] # "idle"
    /\ req' = [req EXCEPT ![r] = in]
    /\ LET c == compose(upstream_uri, in.uri)
       IN  IF c.ok
           THEN /\ out' = [out EXCEPT ![r] = new_req(in, c.uri)]
                /\ call' = [call EXCEPT ![r] = "pending"]
                /\ attempts' = [attempts EXCEPT ![r] = @ + 1]
                /\ pc' = [pc EXCEPT ![r] = "awaiting"]
                /\ result' = result
           ELSE /\ pc' = [pc EXCEPT ![r] = "panicked"]
                /\ result' = [result EXCEPT ![r] = "panic"]
                /\ UNCHANGED <<out, call, attempts>>
    /\ UNCHANGED <<upstream_uri, listening, upresp, late, elapsed, readyAt, resp,
                   nresp, body>>

\* The upstream sends its response headers: client.request resolves to Ok.
UpstreamRespond(r, u) ==
    /\ pc[r] = "awaiting"
    /\ call[r] = "pending"
    /\ call' = [call EXCEPT ![r] = "ok"]
    /\ upresp' = [upresp EXCEPT ![r] = u]
    /\ readyAt' = [readyAt EXCEPT ![r] = elapsed[r]]
    /\ UNCHANGED <<upstream_uri, listening, pc, req, out, late, elapsed, result,
                   resp, nresp, attempts, body>>

\* The upstream call fails: client.request resolves to Err.
UpstreamFail(r, k) ==
    /\ pc[r] = "awaiting"
    /\ call[r] = "pending"
    /\ call' = [call EXCEPT ![r] = k]
    /\ readyAt' = [readyAt EXCEPT ![r] = elapsed[r]]
    /\ UNCHANGED <<upstream_uri, listening, pc, req, out, upresp, late, elapsed,
                   result, resp, nresp, attempts, body>>

\* The handler resumes at line 30 with outcome t and returns through its arm.
\* hyper writes the returned response; a returned Err would close the connection
\* with no response.
Return(r, t) ==
    /\ Runnable(r)
    /\ timeout(call[r], elapsed[r]) = t
    /\ LET m == proxy_match(t, upresp[r])
       IN  IF m.again
           THEN /\ attempts' = [attempts EXCEPT ![r] = @ + 1]
                /\ call' = [call EXCEPT ![r] = "pending"]
                /\ elapsed' = [elapsed EXCEPT ![r] = 0]
                /\ UNCHANGED <<pc, result, resp, nresp, body>>
           ELSE /\ result' = [result EXCEPT ![r] = m.result]
                /\ call' = [call EXCEPT ![r] = AfterMatch(t, call[r])]
                /\ IF m.result = "Ok"
                   THEN /\ resp' = [resp EXCEPT ![r] = m.resp]
                        /\ nresp' = [nresp EXCEPT ![r] = @ + 1]
                   ELSE UNCHANGED <<resp, nresp>>
                /\ IF t = "Ok(Ok)" /\ m.result = "Ok"
                   THEN /\ pc' = [pc EXCEPT ![r] = "streaming"]
                        /\ body' = [body EXCEPT ![r] = "streaming"]
                   ELSE /\ pc' = [pc EXCEPT ![r] = "done"]
                        /\ body' = body
                /\ UNCHANGED <<attempts, elapsed>>
    /\ UNCHANGED <<upstream_uri, listening, req, out, upresp, late, readyAt>>

\* line 31: Ok(Ok(response)) => Ok(response)
ReturnUpstream(r) == Return(r, "Ok(Ok)")

\* lines 32-35: Ok(Err(_)) => create_error_response("closed")
ReturnClosed(r) == Return(r, "Ok(Err)")

\* lines 36-39: Err(_) => create_error_response("timeout")
ReturnTimeout(r) == Return(r, "Err(Elapsed)")

\* The upstream body, which hyper streams to the client after the handler has
\* returned, ends.
BodyComplete(r) ==
    /\ pc[r] = "streaming"
    /\ pc' = [pc EXCEPT ![r] = "done"]
    /\ body' = [body EXCEPT ![r] = "complete"]
    /\ UNCHANGED <<upstream_uri, listening, req, out, call, upresp, late, elapsed,
                   readyAt, result, resp, nresp, attempts>>

\* The upstream connection breaks while the body is streamed: the client's
\* response is cut short.
BodyBreak(r) ==
    /\ pc[r] = "streaming"
    /\ pc' = [pc EXCEPT ![r] = "done"]
    /\ body' = [body EXCEPT ![r] = "broken"]
    /\ UNCHANGED <<upstream_uri, listening, req, out, call, upresp, late, elapsed,
                   readyAt, result, resp, nresp, attempts>>

\* The upstream answers a call whose future was dropped at the deadline.
LateReply(r, u) ==
    /\ call[r] = "dropped"
    /\ ~late[r]
    /\ late' = [late EXCEPT ![r] = TRUE]
    /\ resp' = [resp EXCEPT ![r] = OnLateReply(resp[r], u)]
    /\ UNCHANGED <<upstream_uri, listening, pc, req, out, call, upresp, elapsed,
                   readyAt, result, nresp, attempts, body>>

\* A second passes for every request that is waiting for the upstream or
\* receiving its body.  Woken handlers run before time moves on.
Running(r) == pc[r] \in {"awaiting", "streaming"} /\ elapsed[r] < MaxElapsed

Tick ==
    /\ \E r \in Reqs : Running(r)
    /\ \A r \in Reqs : ~Runnable(r)
    /\ elapsed' = [r \in Reqs |-> IF Running(r) THEN elapsed[r] + 1 ELSE elapsed[r]]
    /\ UNCHANGED <<upstream_uri, listening, pc, req, out, call, upresp, late,
                   readyAt, result, resp, nresp, attempts, body>>

Step(r, answers, failures) ==
    \/ \E u \in answers : UpstreamRespond(r, u)
    \/ \E k \in failures : UpstreamFail(r, k)
    \/ ReturnUpstream(r)
    \/ ReturnClosed(r)
    \/ ReturnTimeout(r)
    \/ BodyComplete(r)
    \/ BodyBreak(r)
    \/ \E u \in answers : LateReply(r, u)

\* Concurrent requests: each is one of the representative inbound requests and
\* its upstream answers, refuses or stays silent.
Next ==
    \/ \E r \in Reqs : \E in \in Inbound : Accept(r, in)
    \/ \E r \in Reqs : Step(r, {OneAnswer}, {"refused", "invalid"})
    \/ Tick

Spec == Init /\ [][Next]_vars

\* One request, drawn from every method, request target and header set, against
\* every upstream answer and failure.
NextOne ==
    \/ \E in \in AllInbound : Accept(1, in)
    \/ Step(1, UpstreamResponses, ErrKinds)
    \/ Tick

SpecOne == Init /\ [][NextOne]_vars

\* URI composition alone: one request of every method, request target and header
\* set is taken up to the await of line 30.
NextURI == \E in \in AllInbound : Accept(1, in)

SpecURI == Init /\ [][NextURI]_vars

(***************************************************************************)
(* Vocabulary of the properties                                            *)
(***************************************************************************)
Dispatched(r) == pc[r] \in {"awaiting", "streaming", "done"}

Finished(r) == pc[r] \in {"panicked", "streaming", "done"}

\* The upstream call of r ended in a connection failure or in the timeout.
Failed(r) == pc[r] = "done" /\ (call[r] \in ErrKinds \/ call[r] = "dropped")

\* The tokens of a body between the first `open` and the first `close`.
Between(b, open, close) ==
    LET i == CHOOSE k \in 1..Len(b) : b[k] = open /\ \A j \in 1..(k - 1) : b[j] # open
        l == CHOOSE k \in 1..Len(b) : b[k] = close /\ \A j \in 1..(k - 1) : b[j] # close
    IN  SubSeq(b, i + 1, l - 1)

Count(b, token) == Cardinality({k \in 1..Len(b) : b[k] = token})

\* A 207 multistatus response with one response element of the given href and
\* displayname.
IsEmptyCollection(w, href, displayname) ==
    /\ w.status = 207
    /\ w.headers = <<Header("Content-Type", "application/xml; charset=utf-8")>>
    /\ Count(w.body, "<d:multistatus xmlns:d=\"DAV:\">") = 1
    /\ Count(w.body, "</d:multistatus>") = 1
    /\ Count(w.body, "<d:response>") = 1
    /\ Count(w.body, "</d:response>") = 1
    /\ Count(w.body, "<d:href>") = 1
    /\ Count(w.body, "<d:displayname>") = 1
    /\ Between(w.body, "<d:href>", "</d:href>") = href
    /\ Between(w.body, "<d:displayname>", "</d:displayname>") = displayname

IsClosedResponse(w) ==
    IsEmptyCollection(w, <<"/", "c", "l", "o", "s", "e", "d", "/">>,
                      <<"C", "L", "O", "S", "E", "D">>)

IsTimeoutResponse(w) ==
    IsEmptyCollection(w, <<"/", "t", "i", "m", "e", "o", "u", "t", "/">>,
                      <<"T", "I", "M", "E", "O", "U", "T">>)

(***************************************************************************)
(* C1                                                                      *)
(***************************************************************************)
\* C1: every accepted request, whatever its method and URI form, gets exactly one
\* response: none gets two, and a request whose handling has ended (its handler
\* returned or its task died) has got one.
C1_ExactlyOneResponse ==
    \A r \in Reqs :
        /\ nresp[r] <= 1
        /\ Finished(r) => nresp[r] = 1

C3_Timeout ==
    \A r \in Reqs :
        /\ (pc[r] = "awaiting" /\ call[r] = "pending") => elapsed[r] <= TIMEOUT_SECS
        /\ call[r] = "dropped"
              => /\ pc[r] = "done"
                 /\ nresp[r] = 1
                 /\ IsTimeoutResponse(resp[r])
                 /\ elapsed[r] >= TIMEOUT_SECS
        /\ (nresp[r] >= 1 /\ IsTimeoutResponse(resp[r])) => elapsed[r] >= TIMEOUT_SECS

\* The upstream has answered a call that was abandoned at the deadline.
C3_Witness ==
    \E r \in Reqs : call[r] = "dropped" /\ late[r]

(***************************************************************************)
(* C4                                                                      *)
(***************************************************************************)
\* C4 as stated: against an unreachable or slow upstream the client gets a
\* complete 207 empty-collection response, never a broken response and never a
\* wait beyond five seconds, also when the upstream sends its headers in time and
\* then stalls or breaks while the body is streamed.
C4_AlwaysWithinBudget ==
    \A r \in Reqs :
        /\ Failed(r) => (nresp[r] = 1 /\ resp[r].status = 207 /\ body[r] = "none")
        /\ pc[r] \in {"awaiting", "streaming"} => elapsed[r] <= TIMEOUT_SECS
        /\ body[r] # "broken"

\* C4 amended: a client whose upstream call fails or yields no response headers
\* within five seconds gets a complete, well-formed 207 empty-collection response
\* no later than five seconds after dispatch; once the headers arrived in time the
\* upstream response is passed on and its body is under no deadline.
C4_HeadersWithinBudget ==
    \A r \in Reqs :
        /\ pc[r] = "awaiting" => elapsed[r] <= TIMEOUT_SECS
        /\ Failed(r)
              => /\ result[r] = "Ok"
                 /\ nresp[r] = 1
                 /\ IsClosedResponse(resp[r]) \/ IsTimeoutResponse(resp[r])
                 /\ body[r] = "none"
                 /\ elapsed[r] <= TIMEOUT_SECS

\* A request was answered at the deadline, and nothing followed.
C4_Witness ==
    \E r \in Reqs :
        Failed(r) /\ call[r] = "dropped" /\ ~late[r] /\ elapsed[r] = TIMEOUT_SECS

(***************************************************************************)
(* C5                                                                      *)
(***************************************************************************)
\* C5: when the upstream answers within the five seconds the client receives the
\* upstream's status, headers and body, and the outbound request has the method,
\* path, query and exactly the headers of the inbound request (the Host value
\* kept, nothing added).
C5_PassThrough ==
    \A r \in Reqs :
        (call[r] = "ok" /\ nresp[r] >= 1)
            => /\ nresp[r] = 1
               /\ resp[r] = upresp[r]
               /\ resp[r] \in UpstreamResponses
               /\ out[r].method = req[r].method
               /\ path(out[r].uri.pq) = path(req[r].uri.pq)
               /\ query(out[r].uri.pq) = query(req[r].uri.pq)
               /\ out[r].headers = req[r].headers
               /\ \A i \in 1..Len(out[r].headers) :
                     out[r].headers[i].name # "x-forwarded-for"

\* A request with a Host header was answered by the upstream.
C5_Witness ==
    \E r \in Reqs :
        /\ call[r] = "ok"
        /\ nresp[r] = 1
        /\ \E i \in 1..Len(req[r].headers) : req[r].headers[i].name = "host"

(***************************************************************************)
(* C6                                                                      *)
(***************************************************************************)
\* C6: for every inbound request the composition succeeds and the outbound URI is
\* http://{host}:{port}{path}{?query}: scheme http, the configured authority, the
\* path and query of the inbound request, and the path / when the inbound request
\* has no path-and-query component.
C6_Composition ==
    \A r \in Reqs :
        pc[r] # "idle"
            => /\ pc[r] # "panicked"
               /\ out[r].uri.scheme = "http"
               /\ out[r].uri.authority = upstream_uri.authority
               /\ LET inbound == path_and_query(req[r].uri)
                      p == IF inbound.some THEN path(inbound.val) ELSE <<"/">>
                      q == IF inbound.some THEN query(inbound.val) ELSE None
                  IN  Display(out[r].uri)
                        = <<"http", "://", upstream_uri.authority>> \o p
                          \o (IF q.some THEN <<"?">> \o q.val ELSE <<>>)

(***************************************************************************)
(* C9                                                                      *)
(***************************************************************************)
\* The URI that proxy_request composes for request target u.
Composed(u) == Display(compose(upstream_uri, u).uri)

\* C9 as stated: a request target whose path-and-query string differs from that of
\* a forwarded request never composes to the URI of the forwarded request.
C9_InjectiveOnStrings ==
    \A r \in Reqs :
        Dispatched(r)
            => \A u \in AllUris :
                 (/\ path_and_query(u).some
                  /\ as_str(path_and_query(u).val) # as_str(path_and_query(req[r].uri).val))
                     => Composed(u) # Display(out[r].uri)

\* C9 amended: composition is injective on the path and the query of the inbound
\* request, an empty path being read as /: two request targets compose to the same
\* upstream URI exactly when they have the same path and the same query, so that
\* ?q (an absolute-form target with an empty path) and /?q share one upstream URI
\* and every other pair of distinct path-and-query strings is kept apart.
C9_InjectiveOnPathAndQuery ==
    \A r \in Reqs :
        Dispatched(r)
            => \A u \in AllUris :
                 path_and_query(u).some
                    => LET p == path_and_query(u).val
                           o == path_and_query(req[r].uri).val
                       IN  (Composed(u) = Display(out[r].uri))
                             <=> (path(p) = path(o) /\ query(p) = query(o))

\* A request whose target has an empty path and a query has been forwarded.
C9_Witness ==
    \E r \in Reqs :
        /\ Dispatched(r)
        /\ QueryStart(req[r].uri.pq) = 1
        /\ Display(out[r].uri) = Composed(MkUri("", "", <<"/">> \o req[r].uri.pq))

(***************************************************************************)
(* C7                                                                      *)
(***************************************************************************)
\* C7: every inbound request causes at most one upstream request; a request whose
\* upstream call failed or timed out has made exactly one.
C7_NoRetry ==
    \A r \in Reqs :
        /\ attempts[r] <= 1
        /\ Failed(r) => attempts[r] = 1

\* Two requests have failed, one by a refused connection and one by the deadline.
C7_Witness ==
    \E r, q \in Reqs :
        /\ Failed(r) /\ call[r] \in ErrKinds /\ attempts[r] = 1
        /\ Failed(q) /\ call[q] = "dropped" /\ attempts[q] = 1

(***************************************************************************)
(* C8                                                                      *)
(***************************************************************************)
\* C8: whatever requests have ended in a connection failure, a timeout, another
\* error of the upstream call or a panic, the handler of a failed upstream call
\* returned a response and not an error, the server is still listening, and the
\* next request can be accepted.
C8_KeepsServing ==
    /\ listening
    /\ \A r \in Reqs :
          /\ Failed(r) => (result[r] = "Ok" /\ nresp[r] = 1)
          /\ result[r] # "Err"
          /\ (pc[r] = "idle" /\ \A q \in Reqs : q < r => pc[q] # "idle")
                => ENABLED (\E in \in Inbound : Accept(r, in))

\* A request has timed out, the server is listening and the next request, not yet
\* arrived, can be accepted.
C8_Witness ==
    \E r, q \in Reqs :
        /\ r < q
        /\ Failed(r) /\ call[r] = "dropped" /\ result[r] = "Ok"
        /\ pc[q] = "idle"
        /\ ENABLED (\E in \in Inbound : Accept(q, in))

(***************************************************************************)
(* C10                                                                     *)
(***************************************************************************)
\* The response that the request and its own upstream outcome determine.
OwnResponse(r) ==
    IF call[r] = "ok" THEN upresp[r]
    ELSE IF call[r] \in ErrKinds THEN create_error_response(Closed).resp
    ELSE create_error_response(Timeout).resp

\* C10: under every interleaving the upstream target is the one main parsed and
\* every forwarded request went to it, the response of a request is the one its
\* own upstream outcome determines, and a request is answered in the second in
\* which its upstream call resolves (at the latest five seconds after dispatch),
\* whatever the other requests are waiting for.
C10_Independent ==
    /\ upstream_uri \in {ParseRemote(remote) : remote \in Remotes}
    /\ \A r \in Reqs :
          /\ Dispatched(r) => out[r].uri.authority = upstream_uri.authority
          /\ nresp[r] >= 1 => resp[r] = OwnResponse(r)
          /\ pc[r] = "awaiting" => elapsed[r] <= TIMEOUT_SECS
          /\ (pc[r] = "awaiting" /\ Resolved(call[r])) => elapsed[r] = readyAt[r]

\* A request whose upstream answered at once has its response while an earlier
\* request is still waiting for its upstream.
C10_Witness ==
    \E r, q \in Reqs :
        /\ r # q
        /\ pc[r] = "awaiting" /\ call[r] = "pending" /\ elapsed[r] >= 1
        /\ call[q] = "ok" /\ nresp[q] = 1 /\ readyAt[q] = 0 /\ elapsed[q] = 0

====
